---- MODULE Spec2Model ----
(***************************************************************************)
(* Model of the ZRO dome Alpaca driver: the Driver connection lifecycle    *)
(* (pkg/drivers/zro: Driver.Connect / Driver.Disconnect and the command    *)
(* surface) on top of the dome controller (package dome: Dome.Run,         *)
(* sendCommandWithTimeout, responseHandler, connectShutter, setConfig).    *)
(*                                                                         *)
(* Every REST request runs on its own goroutine, Dome.Run runs on a        *)
(* goroutine spawned by Connect, and responseHandler runs on the MQTT      *)
(* client's callback goroutine.  The code takes no lock anywhere, so each  *)
(* goroutine is a process of the model and the actions are the stretches   *)
(* of code between two blocking points (a network call, a channel          *)
(* operation, a sleep) or between the test and the write of the shared     *)
(* connection state.                                                       *)
(***************************************************************************)
EXTENDS Integers, Sequences, FiniteSets, TLC

\* ------------------------------------------------------------------ bounds
NumClients == 2     \* REST request goroutines
MaxOps     == 2     \* REST operations started in a run of Spec
MaxDomes   == 1     \* MQTT sessions / Dome controllers created in a run of Spec
MaxFaults  == 1     \* failures of the surroundings in a run (see Fault below)
MaxWire    == 1     \* published commands the controller has not yet answered
MaxKeys    == 2     \* configuration keys of cfgMap that are modelled
MaxLifeOps == 3     \* REST operations started in a run of SpecLife
MaxLifeDomes == 2   \* sessions created in a run of SpecLife
MaxMsgs    == 2     \* telemetry / battery messages delivered in a run
TicksPerTurn == 4   \* Config.TicksPerTurn of the modelled configurations

\* ------------------------------------------------------- program constants
maxRetries == 10

cmdLoad              == "L"
cmdConnectShutter    == "X"
cmdDisconnectShutter == "Z"
cmdAbort             == "A"
cmdGoto              == "G"
cmdStatus            == "S"
cmdVersion           == "V"
cmdBattery           == "B"
cmdHome              == "H"
cmdPark              == "K"
cmdOpenShutter       == "O"
cmdCloseShutter      == "C"

ShutterStatusClosed  == "Closed"
ShutterStatusOpening == "Opening"
ShutterStatusClosing == "Closing"

connStateDisconnected == "Disconnected"
connStateConnecting   == "Connecting"
connStateConnected    == "Connected"

\* The keys of cfgMap in Dome.setConfig; the model pushes the first MaxKeys.
cfgMap == <<"TICK", "TOLE", "PKPO", "AZTO", "MXSP", "MNSP", "BKSP", "VLTO",
            "SHDS", "POSH", "ENDV">>
ConfigKeys == {cfgMap[i] : i \in 1..MaxKeys}

Procs  == 1..NumClients
Domes  == 1..(IF MaxDomes > MaxLifeDomes THEN MaxDomes ELSE MaxLifeDomes)
Feeds  == {"telemetry", "battery", "responses"}

\* A send call is made by a REST goroutine or by the Run goroutine of a dome.
RestCaller(p) == <<"rest", p>>
RunCaller(d)  == <<"run", d>>
Callers == {RestCaller(p) : p \in Procs} \cup {RunCaller(d) : d \in Domes}

NoCaller == <<"none", 0>>

\* A response as parseResponse returns it (code, err), with two bookkeeping
\* fields that the program does not have: owner is the caller whose published
\* command the controller is answering, stale says that this call has already
\* returned.  None is the empty hand-off slot.
None == [code |-> "-", err |-> FALSE, owner |-> NoCaller, stale |-> FALSE]

VARIABLES
  state,       \* Driver.state
  dDome,       \* Driver.dome   (0 = nil, else the index of the Dome)
  dClient,     \* Driver.client (0 = nil, else the index of the session)
  dCancel,     \* Driver.cancel (0 = nil, else the dome whose context it cancels)
  made,        \* number of MQTT sessions created so far
  clientUp,    \* clientUp[d]: client.IsConnected() of session d
  subs,        \* subs[d]: the feeds session d is subscribed to
  ctxDone,     \* ctxDone[d]: the context passed to Run of dome d is cancelled
  useShutter,  \* useShutter[d]: Dome.config.UseShutter
  rpc,         \* rpc[d]: position of the goroutine running Dome.Run
  attempt,     \* attempt[d]: loop variable of connectShutter
  cfgSent,     \* cfgSent[d]: keys of cfgMap already iterated by setConfig
  deferZ,      \* deferZ[d]: Run has deferred disconnectShutter
  runRet,      \* runRet[d]: what Run returns (NoRet until it decides to return;
               \*   it has returned once rpc[d] = "done")
  chan,        \* chan[d]: Dome.responseChan (capacity 1; None = empty)
  hblock,      \* hblock[d]: response the handler is blocked sending (None = idle)
  wire,        \* commands published and not yet answered by the controller
  ppc,         \* ppc[p]: position of REST goroutine p
  pop,         \* pop[p]: the operation p runs / last ran
  pres,        \* pres[p]: what that operation returned (Pending while running)
  pcfg,        \* pcfg[p]: the config Connect read from the store
  sd,          \* sd[c]: the dome whose send call caller c is in (0 = none)
  cmd,         \* cmd[c]: code of the command of that call
  timer,       \* timer[c]: "off" | "running" | "fired"  (time.After of the call)
  ops,         \* REST operations started so far
  capOps,      \* how many REST operations this run may start
  capDomes,    \* how many sessions this run may create
  freeTimers,  \* timers expiring early are not counted as failures in this run
  link,        \* the controller's radio link to the shutter is up
  crashed,     \* the response on which responseHandler panicked, which ends
               \*   the process (None while the process runs)
  storePark,   \* Config.ParkPosition as the config store holds it (degrees)
  pold,        \* pold[p]: bookkeeping, the stored ParkPosition when the
               \*   SetPark call of p began
  homePos,     \* homePos[d]: Dome.config.HomePosition (degrees)
  status,      \* status[d]: Dome.status (see NoStatus)
  inbox,       \* inbox[d]: the telemetry / battery message whose handler runs
  hpc,         \* hpc[d]: how many fields telemetryHandler has assigned so far
  msgs,        \* telemetry / battery messages delivered so far
  snap,        \* snap[p]: the DomeStatus the Status call of p returned
  txCounter,   \* the process-wide transaction counter of package alpaca
  emitted,     \* the HTTP responses written so far, in the order written
  rq,          \* rq[p]: the request handleAPI is serving on goroutine p
  fx,          \* the argument of the function applied on its own (see NoArg)
  fy,          \* what that function returned (NoRes before it is applied)
  faults       \* failures of the surroundings so far

vars == <<state, dDome, dClient, dCancel, made, clientUp, subs, ctxDone,
          useShutter, rpc, attempt, cfgSent, deferZ, runRet,
          chan, hblock, wire, ppc, pop, pres, pcfg, sd, cmd, timer, ops,
          capOps, capDomes, freeTimers, link, crashed, faults,
          storePark, pold, homePos, status, inbox, hpc, msgs, snap,
          txCounter, emitted, rq, fx, fy>>

drvVars  == <<state, dDome, dClient, dCancel, made>>
runVars  == <<rpc, attempt, cfgSent, deferZ, runRet>>
procVars == <<ppc, pop, pres, pcfg, ops>>
sendVars == <<sd, cmd, timer>>
mqttVars == <<clientUp, subs, chan, hblock, wire>>
domVars  == <<storePark, pold, homePos, status, inbox, hpc, msgs, snap>>
restVars == <<txCounter, emitted, rq>>
fnVars   == <<fx, fy>>
auxVars  == <<restVars, fnVars>>
capVars  == <<capOps, capDomes, freeTimers, link, crashed, domVars, auxVars>>
envVars  == <<capVars, faults>>

\* The surroundings of the driver (store, broker, controller) normally work:
\* the store returns a valid configuration, the broker accepts sessions and
\* subscriptions, and the controller acknowledges every command with its own
\* code, except the shutter-connect command while the shutter link is down,
\* which it rejects.  Anything else is a failure, and a run has at most
\* MaxFaults of them.  An answer may come at any time, early or late; a timer
\* that expires while an answer can still come counts as a failure (the
\* controller was too slow), one that expires after waiting in vain does not.
Fault      == faults < MaxFaults /\ faults' = faults + 1
NoFault    == faults' = faults

\* ---------------------------------------------------------------- helpers
\* The process runs: no goroutine has panicked.
Alive == crashed = None

\* The configurations the store can hold when Connect reads it: Validate()
\* accepts it or not, and UseShutter is set or not.
Configs == {[valid |-> TRUE,  useShutter |-> TRUE],
            [valid |-> TRUE,  useShutter |-> FALSE],
            [valid |-> FALSE, useShutter |-> FALSE]}
NoConfig == [valid |-> FALSE, useShutter |-> FALSE]

\* The command codes the REST command surface sends in this model
\* (SlewToAzimuth; the other verbs differ only in the code they send).
RestCodes == {cmdGoto}

Command(c, code) == [code |-> code, err |-> FALSE, owner |-> c, stale |-> FALSE]

\* Bookkeeping when the send call of caller c returns: whatever is still on
\* its way for that call is from now on a late response.
Retire(c, r) ==
  IF r.owner = c THEN [r EXCEPT !.owner = NoCaller, !.stale = TRUE] ELSE r
RetireSeq(c, w) == [i \in DOMAIN w |-> Retire(c, w[i])]
RetireAll(c, f) == [d \in DOMAIN f |-> Retire(c, f[d])]

\* client.Publish on the command topic: the controller queues the command
\* (a command it has no room for is never answered).
Published(c, code) ==
  IF Len(wire) < MaxWire THEN Append(wire, Command(c, code)) ELSE wire

\* What Run returns: nil, or an error from the step at which it gave up.
NoRet       == [err |-> FALSE, at |-> "-"]
RunNil      == [err |-> FALSE, at |-> "idle"]
RunErr(pos) == [err |-> TRUE, at |-> pos]

\* What a send call or an operation returns: nil, or an error of some kind
\* which names a command code where the message of the error does.
Ok               == <<"ok", "-">>
Rejected(code)   == <<"rejected", code>>
Mismatch(code)   == <<"mismatch", code>>
Timeout          == <<"timeout", "-">>
ErrNotConnected  == <<"notconnected", "-">>
PublishFailed    == <<"publishfailed", "-">>
Pending          == <<"-", "-">>
Failure(kind)    == <<kind, "-">>

\* A receive branch that does not compare the code of the response with the
\* code of the command: the variant of Classify without its second test.
ClassifyAnyCode(resp, code) ==
  IF resp.err THEN Rejected(resp.code) ELSE Ok

\* sendCommandWithTimeout, the branch of the select that received resp.
Classify(resp, code) ==
  IF resp.err THEN Rejected(resp.code)
  ELSE IF resp.code # code THEN Mismatch(resp.code)
  ELSE Ok

\* What receiving leaves in the hand-off slot.
Taken(resp) == None

\* The send calls that have published and not yet returned.
InFlight(d) == {c \in Callers : sd[c] = d}

\* sendCommandWithTimeout up to the select: the client is connected and the
\* command is published; the caller now waits.
SendBegin(c, d, code) ==
  /\ clientUp[d]
  /\ wire' = Published(c, code)
  /\ sd' = [sd EXCEPT ![c] = d]
  /\ cmd' = [cmd EXCEPT ![c] = code]
  /\ timer' = [timer EXCEPT ![c] = "running"]
  /\ UNCHANGED <<chan, hblock>>

\* sendCommandWithTimeout returning before the select: ErrNotConnected, or
\* the publish token's error when the connection went down in between.
SendRefused(c, d, res) ==
  /\ ~clientUp[d]
  /\ res \in {ErrNotConnected, PublishFailed}
  /\ UNCHANGED <<sd, cmd, timer, wire, chan, hblock>>

\* The select of sendCommandWithTimeout: case resp := <-d.responseChan.
RecvResult(c) == Classify(chan[sd[c]], cmd[c])

SendRecv(c) ==
  /\ sd[c] # 0
  /\ chan[sd[c]] # None
  /\ chan' = RetireAll(c, [chan EXCEPT ![sd[c]] = Taken(chan[sd[c]])])
  /\ hblock' = RetireAll(c, hblock)
  /\ wire' = RetireSeq(c, wire)
  /\ sd' = [sd EXCEPT ![c] = 0]
  /\ cmd' = [cmd EXCEPT ![c] = "-"]
  /\ timer' = [timer EXCEPT ![c] = "off"]

\* A timeout branch that is ready as soon as the call waits: the variant of
\* TimerReady for a timer of zero duration.
TimerReadyAtOnce(c) == timer[c] # "off"

\* The select of sendCommandWithTimeout: case <-time.After(timeout).
TimerReady(c) == timer[c] = "fired"

SendTimeout(c) ==
  /\ sd[c] # 0
  /\ TimerReady(c)
  /\ chan' = RetireAll(c, chan)
  /\ hblock' = RetireAll(c, hblock)
  /\ wire' = RetireSeq(c, wire)
  /\ sd' = [sd EXCEPT ![c] = 0]
  /\ cmd' = [cmd EXCEPT ![c] = "-"]
  /\ timer' = [timer EXCEPT ![c] = "off"]

\* Dome.status: the position in ticks, the shutter phase, and for each group
\* of fields the number of the message it was last assigned from (0: never).
\* from lists Position, Dir, Target, AtHome, Slewing in the order in which
\* telemetryHandler assigns them.
TelemetryFields == 5
NoStatus == [pos |-> 0, shutter |-> ShutterStatusClosed,
             from |-> <<0, 0, 0, 0, 0>>, batt |-> 0]

\* No message is being handled; no status has been returned.
NoMsg  == [kind |-> "-", ok |-> FALSE, id |-> 0, pos |-> 0]
NoSnap == [az |-> 0, from |-> <<>>]

\* NewDriver / NewDome: the status is zero, the store holds the default
\* ParkPosition and HomePosition.
InitDome ==
  /\ storePark = 0
  /\ pold = [p \in Procs |-> 0]
  /\ homePos = [d \in Domes |-> 0]
  /\ status = [d \in Domes |-> NoStatus]
  /\ inbox = [d \in Domes |-> NoMsg]
  /\ hpc = [d \in Domes |-> 0]
  /\ msgs = 0
  /\ snap = [p \in Procs |-> NoSnap]

\* No request is being served; no function has been applied on its own.
NoRequest == [pc |-> "-", route |-> "-", ctid |-> "-", param |-> "-",
              stid |-> 0, called |-> FALSE, err |-> "-"]
NoArg == [f |-> "-", x |-> 0, m |-> <<>>]
NoRes == [kind |-> "-"]

\* The process has served no request: the counter is zero.
InitRest ==
  /\ txCounter = 0
  /\ emitted = <<>>
  /\ rq = [p \in Procs |-> NoRequest]

InitAux ==
  /\ InitRest
  /\ fx = NoArg
  /\ fy = NoRes

\* ------------------------------------------------------------------- Init
Init ==
  /\ state = connStateDisconnected
  /\ dDome = 0 /\ dClient = 0 /\ dCancel = 0 /\ made = 0
  /\ clientUp = [d \in Domes |-> FALSE]
  /\ subs = [d \in Domes |-> {}]
  /\ ctxDone = [d \in Domes |-> FALSE]
  /\ useShutter = [d \in Domes |-> FALSE]
  /\ rpc = [d \in Domes |-> "-"]
  /\ attempt = [d \in Domes |-> 0]
  /\ cfgSent = [d \in Domes |-> {}]
  /\ deferZ = [d \in Domes |-> FALSE]
  /\ runRet = [d \in Domes |-> NoRet]
  /\ chan = [d \in Domes |-> None]
  /\ hblock = [d \in Domes |-> None]
  /\ wire = <<>>
  /\ ppc = [p \in Procs |-> "idle"]
  /\ pop = [p \in Procs |-> "-"]
  /\ pres = [p \in Procs |-> Pending]
  /\ pcfg = [p \in Procs |-> NoConfig]
  /\ sd = [c \in Callers |-> 0]
  /\ cmd = [c \in Callers |-> "-"]
  /\ timer = [c \in Callers |-> "off"]
  /\ ops = 0
  /\ link \in BOOLEAN
  /\ crashed = None
  /\ InitDome
  /\ InitAux
  /\ faults = 0
  /\ capOps = MaxOps
  /\ capDomes = MaxDomes
  /\ freeTimers = FALSE

\* --------------------------------------------------- Driver: the lifecycle
\* The operation op that REST goroutine p runs returns res to its handler.
Returns(p, op, res) ==
  /\ ppc' = [ppc EXCEPT ![p] = "ret"]
  /\ pop' = [pop EXCEPT ![p] = op]
  /\ pres' = [pres EXCEPT ![p] = res]
  /\ pcfg' = [pcfg EXCEPT ![p] = NoConfig]

\* A request is served by a fresh goroutine: the goroutines are
\* interchangeable, so the lowest free one takes it.
Free(p) == ppc[p] = "idle" /\ \A q \in Procs : q < p => ppc[q] # "idle"

\* handleAPI: the handler has returned, the envelope is written and the
\* goroutine ends.
Respond(p) ==
  /\ Alive
  /\ ppc[p] = "ret"
  /\ ppc' = [ppc EXCEPT ![p] = "idle"]
  /\ pop' = [pop EXCEPT ![p] = "-"]
  /\ pres' = [pres EXCEPT ![p] = Pending]
  /\ UNCHANGED <<pcfg, ops, drvVars, runVars, sendVars, mqttVars, ctxDone,
                 useShutter, envVars>>

\* A Connect that goes on whatever d.state is.
ConnectAlways == TRUE

\* Driver.Connect: the test of d.state.
ConnectAllowed == state = connStateDisconnected

\* Driver.Connect, from the read of the store to the test of d.state.
ConnectCheck(p) ==
  /\ Alive
  /\ Free(p)
  /\ ops < capOps
  /\ ops' = ops + 1
  /\ \/ /\ Fault
        /\ Returns(p, "Connect", Failure("cfgerr"))
     \/ /\ ~ConnectAllowed
        /\ NoFault
        /\ Returns(p, "Connect", Failure("already"))
     \/ /\ ConnectAllowed
        /\ \E cfg \in Configs :
             /\ IF cfg.valid THEN NoFault ELSE Fault
             /\ ppc' = [ppc EXCEPT ![p] = "connSet"]
             /\ pop' = [pop EXCEPT ![p] = "Connect"]
             /\ pres' = [pres EXCEPT ![p] = Pending]
             /\ pcfg' = [pcfg EXCEPT ![p] = cfg]
  /\ UNCHANGED <<drvVars, runVars, sendVars, mqttVars, ctxDone, useShutter,
                 capVars>>

\* Driver.Connect: d.state = connStateConnecting, then createMQTTClient
\* starts connecting to the broker.
ConnectSet(p) ==
  /\ Alive
  /\ ppc[p] = "connSet"
  /\ state' = connStateConnecting
  /\ ppc' = [ppc EXCEPT ![p] = "connMk"]
  /\ UNCHANGED <<dDome, dClient, dCancel, made, pop, pres, pcfg, ops,
                 runVars, sendVars, mqttVars, ctxDone, useShutter, envVars>>

\* The state Connect leaves when createMQTTClient fails.
StateAfterBrokerFailure(s) == s

\* Driver.Connect from the return of createMQTTClient to its own return.
ConnectMk(p) ==
  /\ Alive
  /\ ppc[p] = "connMk"
  /\ \/ \* the broker cannot be reached
        /\ IF made < capDomes THEN Fault ELSE NoFault
        /\ state' = StateAfterBrokerFailure(state)
        /\ Returns(p, "Connect", Failure("mqtterr"))
        /\ UNCHANGED <<dDome, dClient, dCancel, made, clientUp, rpc,
                       useShutter>>
     \/ \* NewDome rejects the configuration
        /\ made < capDomes
        /\ ~pcfg[p].valid
        /\ NoFault
        /\ made' = made + 1
        /\ dClient' = made + 1
        /\ dDome' = 0
        /\ state' = connStateDisconnected
        /\ Returns(p, "Connect", Failure("domeerr"))
        /\ UNCHANGED <<dCancel, clientUp, rpc, useShutter>>
     \/ \* the controller is created and Run is started
        /\ made < capDomes
        /\ pcfg[p].valid
        /\ NoFault
        /\ made' = made + 1
        /\ dClient' = made + 1
        /\ dDome' = made + 1
        /\ dCancel' = made + 1
        /\ clientUp' = [clientUp EXCEPT ![made + 1] = TRUE]
        /\ useShutter' = [useShutter EXCEPT ![made + 1] = pcfg[p].useShutter]
        /\ rpc' = [rpc EXCEPT ![made + 1] = "start"]
        /\ state' = connStateConnected
        /\ Returns(p, "Connect", Ok)
  /\ UNCHANGED <<ops, attempt, cfgSent, deferZ, runRet, sendVars, subs, chan,
                 hblock, wire, ctxDone, capVars>>

\* Driver.Disconnect up to the call of client.Disconnect: the test of
\* d.state and the cancellation of the context of Run.
Disconnect(p) ==
  /\ Alive
  /\ Free(p)
  /\ ops < capOps
  /\ ops' = ops + 1
  /\ \/ /\ state # connStateConnected
        /\ Returns(p, "Disconnect", ErrNotConnected)
        /\ UNCHANGED <<drvVars, ctxDone>>
     \/ /\ state = connStateConnected
        /\ ctxDone' = IF dCancel # 0 THEN [ctxDone EXCEPT ![dCancel] = TRUE]
                      ELSE ctxDone
        /\ dCancel' = 0
        /\ ppc' = [ppc EXCEPT ![p] = "discClose"]
        /\ pop' = [pop EXCEPT ![p] = "Disconnect"]
        /\ pres' = [pres EXCEPT ![p] = Pending]
        /\ UNCHANGED <<state, dDome, dClient, made, pcfg>>
  /\ UNCHANGED <<runVars, sendVars, mqttVars, useShutter, envVars>>

\* Driver.Disconnect from client.Disconnect(100) on: the session is closed,
\* which ends its subscriptions, and d.state is set.
DisconnectClose(p) ==
  /\ Alive
  /\ ppc[p] = "discClose"
  /\ clientUp' = [clientUp EXCEPT ![dClient] = FALSE]
  /\ subs' = [subs EXCEPT ![dClient] = {}]
  /\ state' = connStateDisconnected
  /\ Returns(p, "Disconnect", Ok)
  /\ UNCHANGED <<ops, dDome, dClient, dCancel, made, runVars, sendVars, chan,
                 hblock, wire, ctxDone, useShutter, envVars>>

\* ------------------------------------------- Driver: the command surface
\* What the command operation returns for the result of its send call.
CmdResult(res) == res

\* A command surface that only looks whether a controller object exists.
UsableOnceConnected == dDome # 0

\* The test every operation of the command surface starts with.
Usable == state = connStateConnected

\* Driver.SlewToAzimuth / AbortSlew / FindHome / Park up to the select of the
\* send call they make on d.dome.
CmdStart(p, code) ==
  /\ Alive
  /\ Free(p)
  /\ ops < capOps
  /\ ops' = ops + 1
  /\ \/ /\ ~Usable
        /\ Returns(p, "Cmd", ErrNotConnected)
        /\ UNCHANGED <<sendVars, chan, hblock, wire>>
     \/ /\ Usable
        /\ dDome # 0
        /\ \/ \E res \in {ErrNotConnected, PublishFailed} :
                /\ SendRefused(RestCaller(p), dDome, res)
                /\ Returns(p, "Cmd", CmdResult(res))
           \/ /\ SendBegin(RestCaller(p), dDome, code)
              /\ ppc' = [ppc EXCEPT ![p] = "cmdWait"]
              /\ pop' = [pop EXCEPT ![p] = "Cmd"]
              /\ pres' = [pres EXCEPT ![p] = Pending]
              /\ UNCHANGED pcfg
  /\ UNCHANGED <<drvVars, runVars, clientUp, subs, ctxDone, useShutter,
                 envVars>>

\* The send call of the command returns, and the command with it.
CmdDone(p) ==
  /\ Alive
  /\ ppc[p] = "cmdWait"
  /\ \/ /\ SendRecv(RestCaller(p))
        /\ Returns(p, pop[p], CmdResult(RecvResult(RestCaller(p))))
     \/ /\ SendTimeout(RestCaller(p))
        /\ Returns(p, pop[p], CmdResult(Timeout))
  /\ UNCHANGED <<ops, drvVars, runVars, clientUp, subs, ctxDone, useShutter,
                 envVars>>

\* The timer of time.After(timeout) of a waiting send call expires.
AnswerComing(d) ==
  \/ chan[d] # None
  \/ hblock[d] # None
  \/ wire # <<>> /\ clientUp[d] /\ "responses" \in subs[d]

TimerFire(c) ==
  /\ Alive
  /\ timer[c] = "running"
  /\ timer' = [timer EXCEPT ![c] = "fired"]
  /\ IF AnswerComing(sd[c]) /\ ~freeTimers THEN Fault ELSE NoFault
  /\ UNCHANGED <<drvVars, runVars, procVars, sd, cmd, mqttVars,
                 ctxDone, useShutter, capVars>>

\* ------------------------------------------------------------- Dome.Run
\* A Run that defers the Unsubscribe of the telemetry feed only: the variant
\* of Deferred without the two later defer statements.
DeferredFirstOnly(pos) == IF pos = "start" THEN {} ELSE {"telemetry"}

\* The feeds whose Unsubscribe has been deferred when Run is at position pos.
Deferred(pos) ==
  CASE pos = "start" -> {}
    [] pos = "subB"  -> {"telemetry"}
    [] pos = "subR"  -> {"telemetry", "battery"}
    [] OTHER         -> {"telemetry", "battery", "responses"}

\* Run returns ret from position pos: the deferred calls run, last deferred
\* first.  disconnectShutter sends a command and waits for it, so the
\* unsubscribes wait at position "z" until that call is over.
RunExit(d, pos, ret, dz) ==
  /\ runRet' = [runRet EXCEPT ![d] = ret]
  /\ deferZ' = [deferZ EXCEPT ![d] = dz]
  /\ IF dz
       THEN /\ rpc' = [rpc EXCEPT ![d] = "z"]
            /\ subs' = subs
       ELSE /\ rpc' = [rpc EXCEPT ![d] = "done"]
            /\ subs' = [subs EXCEPT ![d] = subs[d] \ Deferred(pos)]

\* Run: the IsConnected test and the three Subscribe calls, one per step.
RunSubscribe(d) ==
  /\ Alive
  /\ rpc[d] \in {"start", "subB", "subR"}
  /\ LET feed == CASE rpc[d] = "start" -> "telemetry"
                   [] rpc[d] = "subB"  -> "battery"
                   [] rpc[d] = "subR"  -> "responses"
     IN \/ \* not connected, or the subscribe token carries an error
           /\ IF clientUp[d] THEN Fault ELSE NoFault
           /\ RunExit(d, rpc[d], RunErr(rpc[d]), FALSE)
           /\ UNCHANGED attempt
        \/ /\ clientUp[d]
           /\ NoFault
           /\ subs' = [subs EXCEPT ![d] = subs[d] \cup {feed}]
           /\ rpc' = [rpc EXCEPT ![d] =
                        CASE rpc[d] = "start" -> "subB"
                          [] rpc[d] = "subB"  -> "subR"
                          [] rpc[d] = "subR"  ->
                               IF useShutter[d] THEN "shutter" ELSE "qS"]
           /\ attempt' = [attempt EXCEPT ![d] =
                            IF rpc[d] = "subR" /\ useShutter[d] THEN 1 ELSE 0]
           /\ UNCHANGED <<deferZ, runRet>>
  /\ UNCHANGED <<drvVars, procVars, sendVars, clientUp, chan, hblock, wire,
                 cfgSent, ctxDone, useShutter, capVars>>

\* The places where Run (through connectShutter, sendCommand, setConfig and
\* disconnectShutter) makes a send call, and the code it sends there.
SendSites == {"shutter", "qS", "qV", "qB", "cfg", "z"}
SiteCode(pos) ==
  CASE pos = "shutter" -> cmdConnectShutter
    [] pos = "qS"      -> cmdStatus
    [] pos = "qV"      -> cmdVersion
    [] pos = "qB"      -> cmdBattery
    [] pos = "cfg"     -> cmdLoad
    [] pos = "z"       -> cmdDisconnectShutter

\* A connectShutter that gives up one attempt early.
LastAttemptEarly(n) == n >= maxRetries - 1

\* connectShutter gives up after this attempt.
LastAttempt(n) == n = maxRetries

\* Run goes on after the send call made at pos returned res.
RunAfter(d, pos, res) ==
  CASE pos = "shutter" /\ res = Ok ->
         /\ rpc' = [rpc EXCEPT ![d] = "qS"]
         /\ deferZ' = [deferZ EXCEPT ![d] = TRUE]
         /\ UNCHANGED <<attempt, runRet, subs>>
    [] pos = "shutter" /\ res # Ok /\ ~LastAttempt(attempt[d]) ->
         /\ rpc' = [rpc EXCEPT ![d] = "sleep"]
         /\ UNCHANGED <<attempt, deferZ, runRet, subs>>
    [] pos = "shutter" /\ res # Ok /\ LastAttempt(attempt[d]) ->
         /\ RunExit(d, pos, RunErr(pos), deferZ[d])
         /\ UNCHANGED attempt
    [] pos \in {"qS", "qV", "qB"} /\ res = Ok ->
         /\ rpc' = [rpc EXCEPT ![d] = CASE pos = "qS" -> "qV"
                                         [] pos = "qV" -> "qB"
                                         [] pos = "qB" -> "cfg"]
         /\ UNCHANGED <<attempt, deferZ, runRet, subs>>
    [] pos = "cfg" /\ res = Ok ->
         /\ rpc' = [rpc EXCEPT ![d] =
                      IF cfgSent[d] = ConfigKeys THEN "idle" ELSE "cfg"]
         /\ UNCHANGED <<attempt, deferZ, runRet, subs>>
    [] pos \in {"qS", "qV", "qB", "cfg"} /\ res # Ok ->
         /\ RunExit(d, pos, RunErr(pos), deferZ[d])
         /\ UNCHANGED attempt
    [] pos = "z" ->
         \* disconnectShutter only logs a failure; the unsubscribes follow
         /\ RunExit(d, pos, runRet[d], FALSE)
         /\ UNCHANGED attempt

\* A setConfig that packs all the remaining parameters in one command.
NextKeysTogether(sent) == {ConfigKeys \ sent}

\* setConfig: the parameters the next command of the loop may carry, after
\* the keys in sent have been iterated (Go ranges over the map in any order).
NextKeys(sent) == {{k} : k \in ConfigKeys \ sent}

\* Run reaches a send call: the call publishes and waits, or returns at once.
RunSend(d) ==
  /\ Alive
  /\ rpc[d] \in SendSites
  /\ sd[RunCaller(d)] = 0
  /\ IF rpc[d] = "cfg"
       THEN \E ks \in NextKeys(cfgSent[d]) :
              cfgSent' = [cfgSent EXCEPT ![d] = cfgSent[d] \cup ks]
       ELSE UNCHANGED cfgSent
  /\ \/ /\ SendBegin(RunCaller(d), d, SiteCode(rpc[d]))
        /\ UNCHANGED <<rpc, attempt, deferZ, runRet, subs>>
     \/ \E res \in {ErrNotConnected, PublishFailed} :
          /\ SendRefused(RunCaller(d), d, res)
          /\ RunAfter(d, rpc[d], res)
  /\ UNCHANGED <<drvVars, procVars, clientUp, ctxDone, useShutter, envVars>>

\* The send call Run waits in returns.
RunRecv(d) ==
  /\ Alive
  /\ rpc[d] \in SendSites
  /\ \/ /\ SendRecv(RunCaller(d))
        /\ RunAfter(d, rpc[d], RecvResult(RunCaller(d)))
     \/ /\ SendTimeout(RunCaller(d))
        /\ RunAfter(d, rpc[d], Timeout)
  /\ UNCHANGED <<drvVars, procVars, clientUp, ctxDone, useShutter, cfgSent,
                 envVars>>

\* connectShutter: time.Sleep(retryDelay) is over, the next attempt starts.
RunSleep(d) ==
  /\ Alive
  /\ rpc[d] = "sleep"
  /\ rpc' = [rpc EXCEPT ![d] = "shutter"]
  /\ attempt' = [attempt EXCEPT ![d] = attempt[d] + 1]
  /\ UNCHANGED <<drvVars, procVars, sendVars, mqttVars, ctxDone, useShutter,
                 cfgSent, deferZ, runRet, envVars>>

\* Run: <-ctx.Done() returns, Run returns nil.
RunCancelled(d) ==
  /\ Alive
  /\ rpc[d] = "idle"
  /\ ctxDone[d]
  /\ RunExit(d, "idle", RunNil, deferZ[d])
  /\ UNCHANGED <<drvVars, procVars, sendVars, clientUp, chan, hblock, wire,
                 ctxDone, useShutter, attempt, cfgSent, envVars>>

\* ------------------------------------- the controller and responseHandler
Codes == {cmdStatus, cmdGoto, cmdLoad, cmdConnectShutter,
          cmdDisconnectShutter, cmdVersion, cmdBattery, cmdAbort}

\* The code of a response that does not answer the command it follows.
OtherCode(code) == IF code = cmdStatus THEN cmdGoto ELSE cmdStatus

\* The sessions whose responseHandler the broker calls for a response.
Listening == {d \in Domes : clientUp[d] /\ "responses" \in subs[d]}

\* responseHandler: the response goes into responseChan if there is room;
\* otherwise the handler blocks on the channel send.
Handed(slot, resp) == IF slot = None THEN resp ELSE slot

\* responseHandler, case cmdVersion: resp.Value.(string) panics when the
\* response carries no value, and a "_NACK_<code>;" carries none.
HandlerPanics(resp) == resp.code = cmdVersion /\ resp.err

\* The controller answers the oldest command it holds; every listening
\* session runs responseHandler on the answer.
Nominal(command, code, err) ==
  /\ code = command.code
  /\ err = (command.code = cmdConnectShutter /\ ~link)

HwAnswer(code, err) ==
  /\ Alive
  /\ wire # <<>>
  /\ code \in {wire[1].code, OtherCode(wire[1].code)}
  /\ IF Nominal(wire[1], code, err) THEN NoFault ELSE Fault
  /\ \A d \in Listening : hblock[d] = None
  /\ LET resp == [wire[1] EXCEPT !.code = code, !.err = err]
     IN IF Listening # {} /\ HandlerPanics(resp)
          THEN /\ crashed' = resp
               /\ UNCHANGED <<chan, hblock>>
          ELSE /\ chan' = [d \in Domes |->
                             IF d \in Listening THEN Handed(chan[d], resp)
                             ELSE chan[d]]
               /\ hblock' = [d \in Domes |->
                               IF d \in Listening /\ chan[d] # None THEN resp
                               ELSE hblock[d]]
               /\ UNCHANGED crashed
  /\ wire' = Tail(wire)
  /\ UNCHANGED <<drvVars, runVars, procVars, sendVars, clientUp, subs,
                 ctxDone, useShutter, capOps, capDomes, freeTimers, link,
                 domVars, auxVars>>

\* The controller never answers the oldest command it holds.
HwDrop ==
  /\ Alive
  /\ wire # <<>>
  /\ wire' = Tail(wire)
  /\ Fault
  /\ UNCHANGED <<drvVars, runVars, procVars, sendVars, clientUp, subs, chan,
                 hblock, ctxDone, useShutter, capVars>>

\* responseHandler, blocked in its select: the channel has room again.
HandlerPut(d) ==
  /\ Alive
  /\ hblock[d] # None
  /\ chan[d] = None
  /\ chan' = [chan EXCEPT ![d] = hblock[d]]
  /\ hblock' = [hblock EXCEPT ![d] = None]
  /\ UNCHANGED <<drvVars, runVars, procVars, sendVars, clientUp, subs, wire,
                 ctxDone, useShutter, envVars>>

\* responseHandler, blocked in its select: time.After(1 s), the response is
\* dropped with a warning.
HandlerDrop(d) ==
  /\ Alive
  /\ hblock[d] # None
  /\ hblock' = [hblock EXCEPT ![d] = None]
  /\ UNCHANGED <<drvVars, runVars, procVars, sendVars, clientUp, subs, chan,
                 wire, ctxDone, useShutter, envVars>>

\* ------------------------------------------------------------------- Next
Next ==
  \/ \E p \in Procs : ConnectCheck(p)
  \/ \E p \in Procs : ConnectSet(p)
  \/ \E p \in Procs : ConnectMk(p)
  \/ \E p \in Procs : Disconnect(p)
  \/ \E p \in Procs : DisconnectClose(p)
  \/ \E p \in Procs, code \in RestCodes : CmdStart(p, code)
  \/ \E p \in Procs : CmdDone(p)
  \/ \E p \in Procs : Respond(p)
  \/ \E c \in Callers : TimerFire(c)
  \/ \E d \in Domes : RunSubscribe(d)
  \/ \E d \in Domes : RunSend(d)
  \/ \E d \in Domes : RunRecv(d)
  \/ \E d \in Domes : RunSleep(d)
  \/ \E d \in Domes : RunCancelled(d)
  \/ \E code \in Codes, err \in BOOLEAN : HwAnswer(code, err)
  \/ HwDrop
  \/ \E d \in Domes : HandlerPut(d)
  \/ \E d \in Domes : HandlerDrop(d)

Spec == Init /\ [][Next]_vars

\* ------------------------------------------- the lifecycle operations alone
\* Dome.Run reads and writes no field of Driver, so for the connection state
\* it is enough to follow Connect and Disconnect: here the Run goroutines are
\* left unscheduled and more concurrent lifecycle calls are admitted.
InitLife ==
  /\ state = connStateDisconnected
  /\ dDome = 0 /\ dClient = 0 /\ dCancel = 0 /\ made = 0
  /\ clientUp = [d \in Domes |-> FALSE]
  /\ subs = [d \in Domes |-> {}]
  /\ ctxDone = [d \in Domes |-> FALSE]
  /\ useShutter = [d \in Domes |-> FALSE]
  /\ rpc = [d \in Domes |-> "-"]
  /\ attempt = [d \in Domes |-> 0]
  /\ cfgSent = [d \in Domes |-> {}]
  /\ deferZ = [d \in Domes |-> FALSE]
  /\ runRet = [d \in Domes |-> NoRet]
  /\ chan = [d \in Domes |-> None]
  /\ hblock = [d \in Domes |-> None]
  /\ wire = <<>>
  /\ ppc = [p \in Procs |-> "idle"]
  /\ pop = [p \in Procs |-> "-"]
  /\ pres = [p \in Procs |-> Pending]
  /\ pcfg = [p \in Procs |-> NoConfig]
  /\ sd = [c \in Callers |-> 0]
  /\ cmd = [c \in Callers |-> "-"]
  /\ timer = [c \in Callers |-> "off"]
  /\ ops = 0
  /\ link \in BOOLEAN
  /\ crashed = None
  /\ InitDome
  /\ InitAux
  /\ faults = 0
  /\ capOps = MaxLifeOps
  /\ capDomes = MaxLifeDomes
  /\ freeTimers = FALSE

NextLife ==
  \/ \E p \in Procs : ConnectCheck(p)
  \/ \E p \in Procs : ConnectSet(p)
  \/ \E p \in Procs : ConnectMk(p)
  \/ \E p \in Procs : Disconnect(p)
  \/ \E p \in Procs : DisconnectClose(p)
  \/ \E p \in Procs : Respond(p)

SpecLife == InitLife /\ [][NextLife]_vars

\* ----------------------------------------------- the send call on its own
\* A session whose connect sequence is complete (Run waits for its context to
\* be cancelled) and that only the REST command surface uses.  Time passes
\* freely here: a timer may expire whether or not an answer is on its way.
MaxSendOps == 2     \* REST commands started in a run of SpecSend

InitSend ==
  /\ state = connStateConnected
  /\ dDome = 1 /\ dClient = 1 /\ dCancel = 1 /\ made = 1
  /\ clientUp = [d \in Domes |-> d = 1]
  /\ subs = [d \in Domes |-> IF d = 1 THEN Feeds ELSE {}]
  /\ ctxDone = [d \in Domes |-> FALSE]
  /\ useShutter = [d \in Domes |-> FALSE]
  /\ rpc = [d \in Domes |-> IF d = 1 THEN "idle" ELSE "-"]
  /\ attempt = [d \in Domes |-> 0]
  /\ cfgSent = [d \in Domes |-> IF d = 1 THEN ConfigKeys ELSE {}]
  /\ deferZ = [d \in Domes |-> FALSE]
  /\ runRet = [d \in Domes |-> NoRet]
  /\ chan = [d \in Domes |-> None]
  /\ hblock = [d \in Domes |-> None]
  /\ wire = <<>>
  /\ ppc = [p \in Procs |-> "idle"]
  /\ pop = [p \in Procs |-> "-"]
  /\ pres = [p \in Procs |-> Pending]
  /\ pcfg = [p \in Procs |-> NoConfig]
  /\ sd = [c \in Callers |-> 0]
  /\ cmd = [c \in Callers |-> "-"]
  /\ timer = [c \in Callers |-> "off"]
  /\ ops = 0
  /\ link \in BOOLEAN
  /\ crashed = None
  /\ InitDome
  /\ InitAux
  /\ faults = 0
  /\ capOps = MaxSendOps
  /\ capDomes = 1
  /\ freeTimers = TRUE

NextSend ==
  \/ \E p \in Procs, code \in RestCodes : CmdStart(p, code)
  \/ \E p \in Procs : CmdDone(p)
  \/ \E p \in Procs : Respond(p)
  \/ \E c \in Callers : TimerFire(c)
  \/ \E code \in Codes, err \in BOOLEAN : HwAnswer(code, err)
  \/ HwDrop
  \/ \E d \in Domes : HandlerPut(d)
  \/ \E d \in Domes : HandlerDrop(d)

\* The Go runtime fires every timer and schedules every runnable goroutine.
SpecSend ==
  /\ InitSend
  /\ [][NextSend]_vars
  /\ \A p \in Procs : WF_vars(TimerFire(RestCaller(p)))
  /\ \A p \in Procs : WF_vars(CmdDone(p))

\* ------------------------------------------------- one session, established
\* The state right after a Connect that succeeded: the session of dome 1 is
\* open, the driver is Connected and the Run goroutine is at position pos,
\* subscribed to feeds and with the keys sent already pushed; shutter is the
\* UseShutter flag of the configuration (with it, a Run that is past the
\* handshake has deferred disconnectShutter).
Session(pos, feeds, sent, shutter) ==
  /\ state = connStateConnected
  /\ dDome = 1 /\ dClient = 1 /\ dCancel = 1 /\ made = 1
  /\ clientUp = [d \in Domes |-> d = 1]
  /\ subs = [d \in Domes |-> IF d = 1 THEN feeds ELSE {}]
  /\ ctxDone = [d \in Domes |-> FALSE]
  /\ rpc = [d \in Domes |-> IF d = 1 THEN pos ELSE "-"]
  /\ attempt = [d \in Domes |-> 0]
  /\ cfgSent = [d \in Domes |-> IF d = 1 THEN sent ELSE {}]
  /\ useShutter = [d \in Domes |-> d = 1 /\ shutter]
  /\ deferZ = [d \in Domes |-> d = 1 /\ shutter /\ pos = "idle"]
  /\ runRet = [d \in Domes |-> NoRet]
  /\ chan = [d \in Domes |-> None]
  /\ hblock = [d \in Domes |-> None]
  /\ wire = <<>>
  /\ ppc = [p \in Procs |-> "idle"]
  /\ pop = [p \in Procs |-> "-"]
  /\ pres = [p \in Procs |-> Pending]
  /\ pcfg = [p \in Procs |-> NoConfig]
  /\ sd = [c \in Callers |-> 0]
  /\ cmd = [c \in Callers |-> "-"]
  /\ timer = [c \in Callers |-> "off"]
  /\ ops = 0
  /\ crashed = None
  /\ faults = 0
  /\ capDomes = 1

\* ------------------------------------------------ the connect sequence of Run
\* Run from its first statement, in a session that Connect has just created,
\* with the REST side limited to MaxRunOps further operations.
MaxRunOps == 1      \* REST operations started in a run of SpecRun

InitRun ==
  /\ \E shutter \in BOOLEAN : Session("start", {}, {}, shutter)
  /\ link \in BOOLEAN
  /\ InitDome
  /\ InitAux
  /\ capOps = MaxRunOps
  /\ freeTimers = FALSE

NextRun ==
  \/ \E p \in Procs : Disconnect(p)
  \/ \E p \in Procs : DisconnectClose(p)
  \/ \E p \in Procs, code \in RestCodes : CmdStart(p, code)
  \/ \E p \in Procs : CmdDone(p)
  \/ \E p \in Procs : Respond(p)
  \/ \E c \in Callers : TimerFire(c)
  \/ \E d \in Domes : RunSubscribe(d)
  \/ \E d \in Domes : RunSend(d)
  \/ \E d \in Domes : RunRecv(d)
  \/ \E d \in Domes : RunSleep(d)
  \/ \E d \in Domes : RunCancelled(d)
  \/ \E code \in Codes, err \in BOOLEAN : HwAnswer(code, err)
  \/ HwDrop
  \/ \E d \in Domes : HandlerPut(d)
  \/ \E d \in Domes : HandlerDrop(d)

SpecRun == InitRun /\ [][NextRun]_vars

\* ------------------------------------------- the whole command surface
\* Dome.TicksToDegrees, for tick counts whose angle is a whole number.
TicksToDegrees(d, ticks) == (ticks * 360) \div TicksPerTurn + homePos[d]

\* The tick positions and the home offsets of the modelled configurations.
Ticks == 0..(TicksPerTurn - 1)
Homes == {0, 90}

\* Driver.SetPark up to the select of the send call of Dome.SetPark: the
\* state test, the position read from the status, the configuration read
\* from the store, changed and saved, then the load command.
SetParkStart(p) ==
  /\ Alive
  /\ Free(p)
  /\ ops < capOps
  /\ ops' = ops + 1
  /\ pold' = [pold EXCEPT ![p] = storePark]
  /\ \/ /\ ~Usable
        /\ NoFault
        /\ Returns(p, "SetPark", ErrNotConnected)
        /\ UNCHANGED <<sendVars, chan, hblock, wire, storePark>>
     \/ \* store.GetConfig or store.SetConfig returns an error
        /\ Usable
        /\ Fault
        /\ Returns(p, "SetPark", Failure("store"))
        /\ UNCHANGED <<sendVars, chan, hblock, wire, storePark>>
     \/ /\ Usable
        /\ dDome # 0
        /\ NoFault
        /\ storePark' = TicksToDegrees(dDome, status[dDome].pos)
        /\ \/ \E res \in {ErrNotConnected, PublishFailed} :
                /\ SendRefused(RestCaller(p), dDome, res)
                /\ Returns(p, "SetPark", CmdResult(res))
           \/ /\ SendBegin(RestCaller(p), dDome, cmdLoad)
              /\ ppc' = [ppc EXCEPT ![p] = "cmdWait"]
              /\ pop' = [pop EXCEPT ![p] = "SetPark"]
              /\ pres' = [pres EXCEPT ![p] = Pending]
              /\ UNCHANGED pcfg
  /\ UNCHANGED <<drvVars, runVars, clientUp, subs, ctxDone, useShutter,
                 capOps, capDomes, freeTimers, link, crashed,
                 auxVars,
                 homePos, status, inbox, hpc, msgs, snap>>

\* A Dome.SetShutter without the test of UseShutter.
ShutterNeverRefused(d) == FALSE

\* Dome.SetShutter: the first test.
ShutterRefused(d) == ~useShutter[d]

ShutterCode(open)  == IF open THEN cmdOpenShutter ELSE cmdCloseShutter
ShutterPhase(open) == IF open THEN ShutterStatusOpening
                              ELSE ShutterStatusClosing

\* Driver.SetShutter(open / close) up to the select of the send call of
\* Dome.SetShutter.
SetShutterStart(p, open) ==
  /\ Alive
  /\ Free(p)
  /\ ops < capOps
  /\ ops' = ops + 1
  /\ \/ /\ ~Usable
        /\ Returns(p, "SetShutter", ErrNotConnected)
        /\ UNCHANGED <<sendVars, chan, hblock, wire, status>>
     \/ /\ Usable
        /\ dDome # 0
        /\ ShutterRefused(dDome)
        /\ Returns(p, "SetShutter", Failure("shutter not supported"))
        /\ UNCHANGED <<sendVars, chan, hblock, wire, status>>
     \/ /\ Usable
        /\ dDome # 0
        /\ ~ShutterRefused(dDome)
        /\ status' = [status EXCEPT ![dDome].shutter = ShutterPhase(open)]
        /\ \/ \E res \in {ErrNotConnected, PublishFailed} :
                /\ SendRefused(RestCaller(p), dDome, res)
                /\ Returns(p, "SetShutter", CmdResult(res))
           \/ /\ SendBegin(RestCaller(p), dDome, ShutterCode(open))
              /\ ppc' = [ppc EXCEPT ![p] = "cmdWait"]
              /\ pop' = [pop EXCEPT ![p] = "SetShutter"]
              /\ pres' = [pres EXCEPT ![p] = Pending]
              /\ UNCHANGED pcfg
  /\ UNCHANGED <<drvVars, runVars, clientUp, subs, ctxDone, useShutter,
                 capOps, capDomes, freeTimers, link, crashed,
                 auxVars, faults,
                 storePark, pold, homePos, inbox, hpc, msgs, snap>>

\* The codes of the commands that wait for nothing but their ACK.
SurfaceCodes == {cmdGoto, cmdAbort, cmdHome, cmdPark}
AllCodes == Codes \cup {cmdHome, cmdPark, cmdOpenShutter, cmdCloseShutter}

\* A session whose connect sequence is complete, with or without shutter,
\* with a home offset and a dome position, used through the command surface
\* and possibly disconnected.
MaxCmdOps == 2      \* REST operations started in a run of SpecCmd

InitCmd ==
  /\ \E shutter \in BOOLEAN : Session("idle", Feeds, ConfigKeys, shutter)
  /\ link = TRUE
  /\ storePark = 0
  /\ pold = [p \in Procs |-> 0]
  /\ \E h \in Homes : homePos = [d \in Domes |-> h]
  /\ \E t \in Ticks : status = [d \in Domes |-> [NoStatus EXCEPT !.pos = t]]
  /\ inbox = [d \in Domes |-> NoMsg]
  /\ hpc = [d \in Domes |-> 0]
  /\ msgs = 0
  /\ snap = [p \in Procs |-> NoSnap]
  /\ InitAux
  /\ capOps = MaxCmdOps
  /\ freeTimers = FALSE

NextCmd ==
  \/ \E p \in Procs : Disconnect(p)
  \/ \E p \in Procs : DisconnectClose(p)
  \/ \E p \in Procs, code \in SurfaceCodes : CmdStart(p, code)
  \/ \E p \in Procs : SetParkStart(p)
  \/ \E p \in Procs, open \in BOOLEAN : SetShutterStart(p, open)
  \/ \E p \in Procs : CmdDone(p)
  \/ \E p \in Procs : Respond(p)
  \/ \E c \in Callers : TimerFire(c)
  \/ \E d \in Domes : RunSend(d)
  \/ \E d \in Domes : RunRecv(d)
  \/ \E d \in Domes : RunCancelled(d)
  \/ \E code \in AllCodes, err \in BOOLEAN : HwAnswer(code, err)
  \/ HwDrop
  \/ \E d \in Domes : HandlerPut(d)
  \/ \E d \in Domes : HandlerDrop(d)

SpecCmd == InitCmd /\ [][NextCmd]_vars

\* ------------------------------------------------ telemetry and the status
\* The broker delivers a message of the telemetry or the battery feed to the
\* session: the client calls the handler of the feed, one message at a time.
\* ok says whether the payload is JSON of the expected shape.
Message(kind, ok, id, t) == [kind |-> kind, ok |-> ok, id |-> id, pos |-> t]

FeedArrive(d, kind, ok, t) ==
  /\ Alive
  /\ clientUp[d] /\ kind \in subs[d]
  /\ inbox[d] = NoMsg /\ hblock[d] = None
  /\ msgs < MaxMsgs
  /\ msgs' = msgs + 1
  /\ inbox' = [inbox EXCEPT ![d] = Message(kind, ok, msgs + 1, IF ok THEN t ELSE 0)]
  /\ hpc' = [hpc EXCEPT ![d] = 0]
  /\ UNCHANGED <<drvVars, runVars, procVars, sendVars, mqttVars, ctxDone,
                 useShutter, capOps, capDomes, freeTimers, link, crashed,
                 auxVars,
                 faults, storePark, pold, homePos, status, snap>>

\* A handler that goes on with the zero message when json.Unmarshal fails.
DecodesAnything(msg) == TRUE

\* json.Unmarshal(msg.Payload(), &telemetry) returns no error.
Decodes(msg) == msg.ok

\* telemetryHandler: the decoding, then the assignments to d.status, one
\* field per step (Position first), with no lock held.
TelemetryHandler(d) ==
  /\ Alive
  /\ inbox[d].kind = "telemetry"
  /\ IF hpc[d] = 0 /\ ~Decodes(inbox[d])
       THEN /\ inbox' = [inbox EXCEPT ![d] = NoMsg]
            /\ UNCHANGED <<status, hpc>>
       ELSE /\ status' = [status EXCEPT
                            ![d].from[hpc[d] + 1] = inbox[d].id,
                            ![d].pos = IF hpc[d] = 0 THEN inbox[d].pos ELSE @]
            /\ IF hpc[d] + 1 = TelemetryFields
                 THEN /\ inbox' = [inbox EXCEPT ![d] = NoMsg]
                      /\ hpc' = [hpc EXCEPT ![d] = 0]
                 ELSE /\ hpc' = [hpc EXCEPT ![d] = hpc[d] + 1]
                      /\ UNCHANGED inbox
  /\ UNCHANGED <<drvVars, runVars, procVars, sendVars, mqttVars, ctxDone,
                 useShutter, capOps, capDomes, freeTimers, link, crashed,
                 auxVars,
                 faults, storePark, pold, homePos, msgs, snap>>

\* batteryHandler: the decoding, then the two battery fields.
BatteryHandler(d) ==
  /\ Alive
  /\ inbox[d].kind = "battery"
  /\ inbox' = [inbox EXCEPT ![d] = NoMsg]
  /\ status' = IF Decodes(inbox[d])
                 THEN [status EXCEPT ![d].batt = inbox[d].id]
                 ELSE status
  /\ UNCHANGED <<drvVars, runVars, procVars, sendVars, mqttVars, ctxDone,
                 useShutter, capOps, capDomes, freeTimers, link, crashed,
                 auxVars,
                 faults, storePark, pold, homePos, hpc, msgs, snap>>

\* Driver.Status: the state test, the copy of d.dome.status and the
\* conversion to a DomeStatus (the empty one when not connected).
DomeStatus(d, st) == [az |-> TicksToDegrees(d, st.pos), from |-> st.from]

StatusRead(p) ==
  /\ Alive
  /\ Free(p)
  /\ ops < capOps
  /\ ops' = ops + 1
  /\ snap' = [snap EXCEPT ![p] =
                IF state = connStateConnected /\ dDome # 0
                  THEN DomeStatus(dDome, status[dDome]) ELSE NoSnap]
  /\ Returns(p, "Status", Ok)
  /\ UNCHANGED <<drvVars, runVars, sendVars, mqttVars, ctxDone, useShutter,
                 capOps, capDomes, freeTimers, link, crashed,
                 auxVars, faults,
                 storePark, pold, homePos, status, inbox, hpc, msgs>>

\* The positions the telemetry messages of a run report: the first and the
\* last tick of a turn.
Reported == {0, TicksPerTurn - 1}

\* A session whose connect sequence is complete, receiving telemetry and
\* battery messages while REST requests read the status and send commands.
MaxStatusOps == 2   \* REST operations started in a run of SpecStatus

InitStatus ==
  /\ Session("idle", Feeds, ConfigKeys, FALSE)
  /\ link = TRUE
  /\ storePark = 0
  /\ pold = [p \in Procs |-> 0]
  /\ \E h \in Homes : homePos = [d \in Domes |-> h]
  /\ status = [d \in Domes |-> NoStatus]
  /\ inbox = [d \in Domes |-> NoMsg]
  /\ hpc = [d \in Domes |-> 0]
  /\ msgs = 0
  /\ snap = [p \in Procs |-> NoSnap]
  /\ InitAux
  /\ capOps = MaxStatusOps
  /\ freeTimers = FALSE

NextStatus ==
  \/ \E d \in Domes, kind \in {"telemetry", "battery"}, ok \in BOOLEAN,
        t \in Reported : FeedArrive(d, kind, ok, t)
  \/ \E d \in Domes : TelemetryHandler(d)
  \/ \E d \in Domes : BatteryHandler(d)
  \/ \E p \in Procs : StatusRead(p)
  \/ \E p \in Procs, code \in RestCodes : CmdStart(p, code)
  \/ \E p \in Procs : CmdDone(p)
  \/ \E p \in Procs : Respond(p)
  \/ \E c \in Callers : TimerFire(c)
  \/ \E code \in Codes, err \in BOOLEAN : HwAnswer(code, err)
  \/ HwDrop
  \/ \E d \in Domes : HandlerPut(d)
  \/ \E d \in Domes : HandlerDrop(d)

SpecStatus == InitStatus /\ [][NextStatus]_vars

\* ------------------------------------------------- the angle conversions
\* Angles are whole degrees here.  float64 is exact on them up to 2^53; Far
\* stands for a float64 below -2^62, where the spacing of the floats exceeds
\* 720 and x + 360 rounds back to x.
MaxAngle == 800     \* the angles -MaxAngle..MaxAngle are arguments
Far == 0 - 2^30
Add360(a) == IF a <= Far THEN a ELSE a + 360

\* math.Mod: the remainder has the sign of the dividend.
GoMod(a, b) == IF a >= 0 THEN a % b ELSE 0 - ((0 - a) % b)

Value(v) == [kind |-> "value", v |-> v]
Hangs    == [kind |-> "hang"]

\* normalizeAngle: "for angle < 0 { angle += 360 }", which never ends when
\* the addition leaves angle as it is, then math.Mod(angle+360, 360).
RECURSIVE AddTurns(_)
AddTurns(a) ==
  IF a >= 0 THEN Value(a)
  ELSE IF Add360(a) = a THEN Hangs
  ELSE AddTurns(Add360(a))

normalizeAngle(x) ==
  IF AddTurns(x) = Hangs THEN Hangs
  ELSE Value(GoMod(AddTurns(x).v + 360, 360))

\* Dome.DegreesToTicks: the conversion to int truncates.
DegreesToTicks(d, x) ==
  IF normalizeAngle(x - homePos[d]) = Hangs THEN Hangs
  ELSE Value((normalizeAngle(x - homePos[d]).v * TicksPerTurn) \div 360)

\* TicksToDegrees(DegreesToTicks(x)).
RoundTrip(d, x) ==
  IF DegreesToTicks(d, x) = Hangs THEN Hangs
  ELSE Value(TicksToDegrees(d, DegreesToTicks(d, x).v))

AngleArgs == (-MaxAngle..MaxAngle) \cup {3685, -3570, Far}
Azimuths  == 0..359

\* NaN stands for the float64 values NaN and +Inf, which strconv.ParseFloat
\* accepts ("NaN", "Inf"): angle < 0 is false for them, math.Mod gives NaN,
\* and NaN stays NaN through the scaling.  The conversion of NaN to int is
\* implementation-dependent: the smallest int on amd64, zero on arm64.
NaN == 2^30
MaxInt32 == 2147483647
IntMin == (0 - MaxInt32) - 1
IntOfNaN == {IntMin, 0}

\* Dome.SlewToAzimuth: the goto command carries the result of
\* DegreesToTicks as its target; nothing is published if that never returns.
Goto(t) == [kind |-> "goto", v |-> t]
GotoTargets(d, x) ==
  IF x = NaN THEN {Goto(t) : t \in IntOfNaN}
  ELSE IF DegreesToTicks(d, x) = Hangs THEN {Hangs}
  ELSE {Goto(DegreesToTicks(d, x).v)}
SlewArgs == AngleArgs \cup {NaN}

InitAngle ==
  /\ Session("idle", Feeds, ConfigKeys, FALSE)
  /\ link = TRUE
  /\ storePark = 0
  /\ pold = [p \in Procs |-> 0]
  /\ \E h \in Homes : homePos = [d \in Domes |-> h]
  /\ status = [d \in Domes |-> NoStatus]
  /\ inbox = [d \in Domes |-> NoMsg]
  /\ hpc = [d \in Domes |-> 0]
  /\ msgs = 0
  /\ snap = [p \in Procs |-> NoSnap]
  /\ InitRest
  /\ \/ \E x \in AngleArgs :
          fx = [f |-> "normalizeAngle", x |-> x, m |-> <<>>]
     \/ \E x \in Azimuths :
          fx = [f |-> "RoundTrip", x |-> x, m |-> <<>>]
     \/ \E x \in AngleArgs :
          fx = [f |-> "DegreesToTicks", x |-> x, m |-> <<>>]
     \/ \E x \in SlewArgs :
          fx = [f |-> "SlewToAzimuth", x |-> x, m |-> <<>>]
  /\ fy = NoRes
  /\ capOps = 0
  /\ freeTimers = FALSE

\* The function is applied to the argument.
Apply(f, y) ==
  /\ Alive
  /\ fx.f = f
  /\ fy = NoRes
  /\ fy' = y
  /\ UNCHANGED <<drvVars, runVars, procVars, sendVars, mqttVars, ctxDone,
                 useShutter, capOps, capDomes, freeTimers, link, crashed,
                 faults, domVars, restVars, fx>>

CallNormalize == Apply("normalizeAngle", normalizeAngle(fx.x))
CallRoundTrip == Apply("RoundTrip", RoundTrip(dDome, fx.x))

CallDegreesToTicks ==
  Apply("DegreesToTicks", DegreesToTicks(dDome, fx.x))
CallSlewToAzimuth ==
  \E y \in GotoTargets(dDome, fx.x) : Apply("SlewToAzimuth", y)

NextAngle ==
  \/ CallNormalize
  \/ CallRoundTrip
  \/ CallDegreesToTicks
  \/ CallSlewToAzimuth

SpecAngle == InitAngle /\ [][NextAngle]_vars

\* ------------------------------------------------------ response decoding
\* A message is a sequence of characters; the words ACK and NACK are kept
\* whole, as a string is equal to "ACK" only if it is that word alone.
MaxMsgLen == 4      \* arbitrary messages have up to MaxMsgLen symbols
MaxTail == 5        \* framed messages have up to MaxTail symbols in the tail
Symbols     == {"_", ";", "=", "ACK", "NACK", "S", "1"}
TailSymbols == {"_", ";", "=", "S", "1"}
Indicators  == {"ACK", "NACK", "S"}
SeqsUpTo(A, n) == UNION {[1..k -> A] : k \in 0..n}

\* s[0] of a string that begins with the symbol t.
FirstChar(t) == IF t = "ACK" THEN "A" ELSE IF t = "NACK" THEN "N" ELSE t

\* strings.Split: the pieces between the separators, one piece when there
\* is no separator (the empty string gives one empty piece).
RECURSIVE Split(_, _)
Split(s, sep) ==
  IF \A i \in 1..Len(s) : s[i] # sep THEN <<s>>
  ELSE LET i == CHOOSE i \in 1..Len(s) :
                   s[i] = sep /\ \A j \in 1..(i - 1) : s[j] # sep
       IN <<SubSeq(s, 1, i - 1)>> \o Split(SubSeq(s, i + 1, Len(s)), sep)

HasSuffix(s, c) == Len(s) > 0 /\ s[Len(s)] = c

\* strings.Trim(s, c): every leading and every trailing c is removed.
RECURSIVE TrimLeft(_, _)
TrimLeft(s, c) ==
  IF Len(s) > 0 /\ s[1] = c THEN TrimLeft(Tail(s), c) ELSE s
RECURSIVE TrimRight(_, _)
TrimRight(s, c) ==
  IF HasSuffix(s, c) THEN TrimRight(SubSeq(s, 1, Len(s) - 1), c) ELSE s
TrimNothing(s, c) == s
Trim(s, c) == TrimRight(TrimLeft(s, c), c)

Response(c, e, hv, v) ==
  [kind |-> "ok", code |-> c, error |-> e, hasValue |-> hv, value |-> v]
DecodeError == [kind |-> "error"]
IndexPanic  == [kind |-> "panic"]

\* parseResponse.  parts[0][0] is read before the number of parts is
\* looked at, and indexing an empty string panics.
parseResponse(msg) ==
  LET fields == Split(msg, "_") IN
  IF Len(fields) # 3 THEN DecodeError
  ELSE IF ~HasSuffix(fields[3], ";") THEN DecodeError
  ELSE IF fields[2] # <<"NACK">> /\ fields[2] # <<"ACK">> THEN DecodeError
  ELSE LET parts == Split(Trim(fields[3], ";"), "=") IN
       IF Len(parts[1]) = 0 THEN IndexPanic
       ELSE IF Len(parts) = 2
         THEN Response(FirstChar(parts[1][1]), fields[2] = <<"NACK">>,
                       TRUE, parts[2])
       ELSE IF Len(parts) # 1 THEN DecodeError
       ELSE Response(FirstChar(parts[1][1]), fields[2] = <<"NACK">>,
                     FALSE, <<>>)

Framed(ind, tail) == <<"_", ind, "_">> \o tail
MsgArgs ==
  SeqsUpTo(Symbols, MaxMsgLen)
    \cup {Framed(i, t) : i \in Indicators, t \in SeqsUpTo(TailSymbols, MaxTail)}

InitParse ==
  /\ Session("idle", Feeds, ConfigKeys, FALSE)
  /\ link = TRUE
  /\ InitDome
  /\ InitRest
  /\ \E m \in MsgArgs : fx = [f |-> "parseResponse", x |-> 0, m |-> m]
  /\ fy = NoRes
  /\ capOps = 0
  /\ freeTimers = FALSE

CallParse == Apply("parseResponse", parseResponse(fx.m))

NextParse == CallParse

SpecParse == InitParse /\ [][NextParse]_vars

\* ------------------------------------------------------ the REST envelope
\* handleAPI around one handler.  A request is a route, the class of its
\* ClientTransactionID and the class of its required parameter; what the
\* driver method returns is the driver's affair and any outcome can come.
MaxRequests == 2    \* requests served in a run
Routes == {"slewtoazimuth", "synctoazimuth", "slewtoaltitude", "slaved",
           "connected", "park"}
Required(route) == route # "park"
ClientIDs  == {"absent", "negative", "text", "ok"}
Params     == {"absent", "bad", "ok"}
DriverErrs == {"notconnected", "rejected", "timeout", "mismatch",
               "notimplemented"}
Outcomes   == {"none"} \cup DriverErrs

\* atomic.Int32.Add(1) wraps.
AddInt32(n) == IF n = MaxInt32 THEN (0 - MaxInt32) - 1 ELSE n + 1

\* getUintParam: the field must be there and ParseUint(value, 10, 32) must
\* take it.
ClientIDDefaulted(c) == TRUE
ClientIDAccepted(c) == c = "ok"

\* getBoolParam, getFloatParam: the field must be there and must parse.
ParamDefaulted(v) == TRUE
ParamAccepted(v) == v = "ok"

\* response.ErrorNumber: "TODO: Define error numbers".
ErrorNumber(err) == IF err = "none" THEN 0 ELSE 1

\* http.Error: a status and a line of text, no envelope.
Plain(r, code, called) ==
  [route |-> r.route, ctid |-> r.ctid, param |-> r.param, code |-> code,
   envelope |-> FALSE, stid |-> 0, errnum |-> 0, err |-> "-",
   called |-> called]
\* The JSON envelope, written with status 200.
Envelope(r, err) ==
  [route |-> r.route, ctid |-> r.ctid, param |-> r.param, code |-> 200,
   envelope |-> TRUE, stid |-> r.stid, errnum |-> ErrorNumber(err),
   err |-> err, called |-> TRUE]

Serving == {q \in Procs : rq[q].pc # "-"}
RestFrame ==
  UNCHANGED <<drvVars, runVars, procVars, sendVars, mqttVars, ctxDone,
              useShutter, capOps, capDomes, freeTimers, link, crashed,
              faults, domVars, fnVars>>

\* A request arrives: the ClientTransactionID is read, a bad one is answered
\* at once, a good one gets the next server transaction id.
Arrive(p, route, ctid, param) ==
  /\ Alive
  /\ rq[p].pc = "-"
  /\ \A q \in Procs : q < p => rq[q].pc # "-"
  /\ Len(emitted) + Cardinality(Serving) < MaxRequests
  /\ param \in IF Required(route) THEN Params ELSE {"-"}
  /\ LET r == [pc |-> "handler", route |-> route, ctid |-> ctid,
               param |-> param, stid |-> AddInt32(txCounter),
               called |-> FALSE, err |-> "-"]
     IN IF ~ClientIDAccepted(ctid)
        THEN /\ emitted' = Append(emitted, Plain(r, 400, FALSE))
             /\ UNCHANGED <<txCounter, rq>>
        ELSE /\ txCounter' = AddInt32(txCounter)
             /\ rq' = [rq EXCEPT ![p] = r]
             /\ UNCHANGED emitted
  /\ RestFrame

\* The handler runs: a required parameter that is missing or does not parse
\* ends it with errBadRequest; otherwise the driver method is called and its
\* result goes into the envelope.  Then the response is written.
Finish(p, out) ==
  /\ Alive
  /\ rq[p].pc = "handler"
  /\ IF Required(rq[p].route) /\ ~ParamAccepted(rq[p].param)
     THEN /\ out = "none"
          /\ emitted' = Append(emitted, Plain(rq[p], 400, FALSE))
     ELSE emitted' = Append(emitted, Envelope(rq[p], out))
  /\ rq' = [rq EXCEPT ![p] = NoRequest]
  /\ UNCHANGED txCounter
  /\ RestFrame

NextRest ==
  \/ \E p \in Procs, route \in Routes, ctid \in ClientIDs :
       \E param \in Params \cup {"-"} : Arrive(p, route, ctid, param)
  \/ \E p \in Procs, out \in Outcomes : Finish(p, out)

SpecRest == Init /\ [][NextRest]_vars

\* ------------------------------------------------- cancellation of Run
\* Run from its first statement with one Disconnect call that can come at any
\* moment.  Time passes freely, and the Go runtime schedules the Run
\* goroutine and fires the timers of its send calls.
MaxCancelOps == 1   \* lifecycle calls started in a run of SpecCancel

InitCancel ==
  /\ \E shutter \in BOOLEAN : Session("start", {}, {}, shutter)
  /\ link \in BOOLEAN
  /\ InitDome
  /\ InitAux
  /\ capOps = MaxCancelOps
  /\ freeTimers = TRUE

NextCancel ==
  \/ \E p \in Procs : Disconnect(p)
  \/ \E p \in Procs : DisconnectClose(p)
  \/ \E p \in Procs : Respond(p)
  \/ \E c \in Callers : TimerFire(c)
  \/ \E d \in Domes : RunSubscribe(d)
  \/ \E d \in Domes : RunSend(d)
  \/ \E d \in Domes : RunRecv(d)
  \/ \E d \in Domes : RunSleep(d)
  \/ \E d \in Domes : RunCancelled(d)
  \/ \E code \in Codes, err \in BOOLEAN : HwAnswer(code, err)
  \/ HwDrop
  \/ \E d \in Domes : HandlerPut(d)
  \/ \E d \in Domes : HandlerDrop(d)

SpecCancel ==
  /\ InitCancel
  /\ [][NextCancel]_vars
  /\ \A p \in Procs : WF_vars(DisconnectClose(p))
  /\ \A d \in Domes :
       /\ WF_vars(TimerFire(RunCaller(d)))
       /\ WF_vars(RunSubscribe(d))
       /\ WF_vars(RunSend(d))
       /\ WF_vars(RunRecv(d))
       /\ WF_vars(RunSleep(d))
       /\ WF_vars(RunCancelled(d))

\* ----------------------------------------- the counter late in a process
\* The REST envelope in a process that has served many requests already: the
\* counter starts at zero or one short of the largest int32.
CounterStarts == {0, MaxInt32 - 1}

InitCounter ==
  /\ Session("idle", Feeds, ConfigKeys, FALSE)
  /\ link = TRUE
  /\ InitDome
  /\ txCounter \in CounterStarts
  /\ emitted = <<>>
  /\ rq = [p \in Procs |-> NoRequest]
  /\ fx = NoArg
  /\ fy = NoRes
  /\ capOps = 0
  /\ freeTimers = FALSE

SpecCounter == InitCounter /\ [][NextRest]_vars

\* ------------------------------------------ the shutter in the telemetry
\* A telemetry message also reports the state of the shutter (sh_state).
\* Here the session has a shutter, receives such messages and is asked to
\* open or close the shutter.
MaxShutterOps == 2  \* shutter commands started in a run of SpecShutter
ShutterStatusOpen == "Open"
ShutterReports == {ShutterStatusClosed, ShutterStatusOpen}

TelemetryArrive(d, t, sh) ==
  /\ Alive
  /\ clientUp[d] /\ "telemetry" \in subs[d]
  /\ inbox[d] = NoMsg /\ hblock[d] = None
  /\ msgs < MaxMsgs
  /\ msgs' = msgs + 1
  /\ inbox' = [inbox EXCEPT ![d] =
                 [kind |-> "telemetry", ok |-> TRUE, id |-> msgs + 1,
                  pos |-> t, sh |-> sh]]
  /\ hpc' = [hpc EXCEPT ![d] = 0]
  /\ UNCHANGED <<drvVars, runVars, procVars, sendVars, mqttVars, ctxDone,
                 useShutter, capOps, capDomes, freeTimers, link, crashed,
                 auxVars,
                 faults, storePark, pold, homePos, status, snap>>

\* Driver.convertShutterStatus, to the values of alpaca.ShutterStatus
\* (ShutterOpen = 0, ShutterClosed, ShutterOpening, ShutterClosing,
\* ShutterError).
convertShutterStatus(zroStatus) ==
  CASE zroStatus = ShutterStatusClosed  -> 1
    [] zroStatus = ShutterStatusOpening -> 2
    [] zroStatus = ShutterStatusOpen    -> 0
    [] zroStatus = ShutterStatusClosing -> 3
    [] OTHER                            -> 4

InitShutter ==
  /\ Session("idle", Feeds, ConfigKeys, TRUE)
  /\ link = TRUE
  /\ InitDome
  /\ InitAux
  /\ capOps = MaxShutterOps
  /\ freeTimers = FALSE

NextShutter ==
  \/ \E d \in Domes, sh \in ShutterReports : TelemetryArrive(d, 0, sh)
  \/ \E d \in Domes : TelemetryHandler(d)
  \/ \E p \in Procs, open \in BOOLEAN : SetShutterStart(p, open)
  \/ \E p \in Procs : CmdDone(p)
  \/ \E p \in Procs : Respond(p)
  \/ \E c \in Callers : TimerFire(c)
  \/ \E code \in AllCodes, err \in BOOLEAN : HwAnswer(code, err)
  \/ HwDrop
  \/ \E d \in Domes : HandlerPut(d)
  \/ \E d \in Domes : HandlerDrop(d)

SpecShutter == InitShutter /\ [][NextShutter]_vars

\* ============================================================== properties
\* C1: at every instant at most one command per driver is in flight: no send
\* call publishes while another send call on the same controller has
\* published and not yet returned.
C1_OneInFlight == \A d \in Domes : Cardinality(InFlight(d)) <= 1

\* C2: a response that arrives for a send call which has already timed out is
\* discarded: no send call ever takes such a late response out of the
\* hand-off slot as its own result.
C2_LateDiscarded ==
  [][\A c \in Callers :
       (sd[c] # 0 /\ sd'[c] = 0 /\ chan[sd[c]] # None /\ chan'[sd[c]] = None)
         => ~chan[sd[c]].stale]_vars

\* C3: a send call for code c that receives a well-formed ACK of another
\* code returns the mismatch error on receipt, before its timer has expired,
\* and the mismatched response is taken out of the hand-off slot; the
\* command operation that made the call returns that error.
C3_MismatchOnReceipt ==
  [][/\ \A c \in Callers :
          (/\ sd[c] # 0 /\ sd'[c] = 0 /\ timer[c] # "fired"
           /\ ~chan[sd[c]].err /\ chan[sd[c]].code # cmd[c])
            => chan'[sd[c]] = None
     /\ \A p \in Procs :
          (/\ ppc[p] = "cmdWait" /\ ppc'[p] = "ret"
           /\ timer[RestCaller(p)] # "fired"
           /\ ~chan[sd[RestCaller(p)]].err
           /\ chan[sd[RestCaller(p)]].code # cmd[RestCaller(p)])
            => pres'[p] = Mismatch(chan[sd[RestCaller(p)]].code)]_vars

\* A command has returned the mismatch error and the slot is empty.
C3_Witness ==
  \E p \in Procs :
    /\ ppc[p] = "ret" /\ pop[p] = "Cmd" /\ pres[p] = Mismatch(cmdStatus)
    /\ dDome # 0 /\ chan[dDome] = None

\* C4: every send call eventually returns; a call that returns while the
\* hand-off slot is empty returns the timeout error (never success), and no
\* call returns the timeout error before its timer has expired.
C4_SendReturns ==
  /\ \A p \in Procs : (sd[RestCaller(p)] # 0) ~> (sd[RestCaller(p)] = 0)
  /\ [][\A p \in Procs :
          (ppc[p] = "cmdWait" /\ ppc'[p] = "ret") =>
            /\ (pres'[p] = Timeout => timer[RestCaller(p)] = "fired")
            /\ (chan[sd[RestCaller(p)]] = None => pres'[p] = Timeout)]_vars

\* A command has returned the timeout error after the controller never
\* answered it.
C4_Witness ==
  \E p \in Procs :
    /\ ppc[p] = "ret" /\ pop[p] = "Cmd" /\ pres[p] = Timeout
    /\ wire = <<>> /\ chan[dDome] = None /\ hblock[dDome] = None

\* C5: when the controller answers the outstanding command of a send call
\* with the same code and the error flag, the call returns the rejection
\* error naming that code and the calling operation fails: the answer reaches
\* the waiting call (the handler does not die on it), and a command operation
\* that receives it returns the rejection error.
C5_Rejected ==
  /\ [](\A c \in Callers :
          ~(crashed.err /\ crashed.owner = c /\ crashed.code = cmd[c]))
  /\ [][\A p \in Procs :
          (/\ ppc[p] = "cmdWait" /\ ppc'[p] = "ret"
           /\ timer[RestCaller(p)] # "fired"
           /\ chan[sd[RestCaller(p)]].err
           /\ chan[sd[RestCaller(p)]].code = cmd[RestCaller(p)])
            => pres'[p] = Rejected(cmd[RestCaller(p)])]_vars

\* C6: with the shutter enabled and every shutter-connect command rejected
\* (the shutter link is down, nothing else fails and no other operation was
\* started), once the connect sequence has used up its attempts and returned
\* the handshake error the connection state is Disconnected.
C6_HandshakeFailureDisconnects ==
  \A d \in Domes :
    (/\ useShutter[d] /\ ~link /\ faults = 0 /\ ops = 1
     /\ rpc[d] = "done" /\ runRet[d] = RunErr("shutter")
     /\ attempt[d] = maxRetries)
      => state = connStateDisconnected

\* C7: whenever the connection state is Connected, the connect sequence of
\* the current controller (subscriptions, handshake, queries, configuration
\* push) has completed successfully.
C7_ConnectedMeansComplete ==
  state = connStateConnected => (dDome # 0 /\ rpc[dDome] = "idle")

\* C8: a Connect call that fails leaves the state Disconnected: whenever no
\* Connect call is in progress the connection state is not Connecting.
C8_NoStuckConnecting ==
  (\A p \in Procs : ppc[p] \notin {"connSet", "connMk"})
    => state # connStateConnecting

\* C9: the connection state never changes directly from Disconnected to
\* Connected.
C9_NeverSkipsConnecting ==
  [][state = connStateDisconnected => state' # connStateConnected]_vars

\* C10: whenever the connect sequence has returned an error, whatever the step
\* that failed, none of the feeds it had subscribed is still subscribed.
C10_AbortUnsubscribes ==
  \A d \in Domes : (rpc[d] = "done" /\ runRet[d].err) => subs[d] = {}

\* The connect sequence has subscribed the three feeds, then failed at a
\* query or at the exhausted handshake and returned, on a session that is
\* still up, and no feed is subscribed any more.
C10_Witness ==
  \E d \in Domes :
    /\ rpc[d] = "done" /\ runRet[d].err
    /\ runRet[d].at \in {"shutter", "qS", "qV", "qB", "cfg"}
    /\ clientUp[d] /\ subs[d] = {}

\* C11: the shutter-connect handshake publishes the connect command at most
\* maxRetries times per connect.  Every send it makes is attempt 1, 2, ... in
\* turn and none comes after attempt maxRetries; the first attempt whose send
\* returns success ends the handshake with success (Run goes on to the
\* status query); an attempt that fails is followed by the retry delay when
\* it is not the last, and the handshake reports failure exactly when the
\* last attempt fails.
ShutterReturn(d) == rpc[d] = "shutter" /\ rpc'[d] # "shutter"
ShutterOk(d) ==
  /\ sd[RunCaller(d)] = d
  /\ chan[d] # None /\ chan'[d] = None
  /\ ~chan[d].err /\ chan[d].code = cmdConnectShutter
C11_HandshakeBudget ==
  [][\A d \in Domes :
       /\ (rpc[d] = "shutter" /\ sd[RunCaller(d)] = 0 /\ sd'[RunCaller(d)] # 0)
            => (attempt[d] \in 1..maxRetries /\ Len(wire') <= Len(wire) + 1)
       /\ (rpc[d] = "shutter" /\ sd[RunCaller(d)] # 0 /\ sd'[RunCaller(d)] = 0)
            => ShutterReturn(d)
       /\ (rpc[d] # "shutter" /\ rpc'[d] = "shutter")
            => attempt'[d] = (IF rpc[d] = "subR" THEN 1 ELSE attempt[d] + 1)
       /\ (rpc[d] = "shutter" /\ rpc'[d] = "shutter")
            => attempt'[d] = attempt[d]
       /\ ShutterReturn(d) =>
            IF ShutterOk(d)
              THEN rpc'[d] = "qS" /\ runRet'[d] = NoRet
              ELSE IF attempt[d] = maxRetries
                     THEN /\ runRet'[d] = RunErr("shutter")
                          /\ rpc'[d] = "done"
                     ELSE rpc'[d] = "sleep" /\ runRet'[d] = NoRet]_vars

\* C11 witness: all maxRetries attempts failed and Run returned the error.
C11_Witness ==
  \E d \in Domes :
    rpc[d] = "done" /\ runRet[d] = RunErr("shutter") /\ attempt[d] = maxRetries

\* C12: the configuration push sends one command per configuration key: each
\* command of the push carries exactly one key, a key that no earlier command
\* carried; a command is sent only when the call for the previous one has
\* returned; when a call fails Run returns the error and no further key is
\* sent; Run considers the sequence complete only when every key was sent.
C12_ConfigPush ==
  [][\A d \in Domes :
       /\ cfgSent'[d] # cfgSent[d] =>
            /\ rpc[d] = "cfg" /\ sd[RunCaller(d)] = 0 /\ runRet[d] = NoRet
            /\ cfgSent[d] \subseteq cfgSent'[d]
            /\ Cardinality(cfgSent'[d] \ cfgSent[d]) = 1
            /\ Len(wire') <= Len(wire) + 1
       /\ (rpc[d] = "cfg" /\ sd[RunCaller(d)] = 0 /\ sd'[RunCaller(d)] # 0)
            => cfgSent'[d] # cfgSent[d]
       /\ (rpc[d] = "cfg" /\ rpc'[d] \notin {"cfg", "idle"})
            => (runRet'[d] = RunErr("cfg") /\ rpc'[d] \in {"z", "done"})
       /\ (rpc[d] = "cfg" /\ sd[RunCaller(d)] # 0 /\ sd'[RunCaller(d)] = 0
              /\ rpc'[d] \in {"cfg", "idle"})
            => /\ chan[d] # None /\ chan'[d] = None
               /\ ~chan[d].err /\ chan[d].code = cmdLoad
       /\ (cfgSent'[d] # cfgSent[d] /\ sd'[RunCaller(d)] = 0)
            => (runRet'[d] = RunErr("cfg") /\ rpc'[d] \in {"z", "done"})
       /\ rpc'[d] = "idle" => cfgSent'[d] = ConfigKeys]_vars

\* C12 witness: the command of the first key failed and Run returned the
\* error with the other keys unsent.
C12_Witness ==
  \E d \in Domes :
    /\ rpc[d] = "done" /\ runRet[d] = RunErr("cfg")
    /\ cfgSent[d] # {} /\ cfgSent[d] # ConfigKeys

\* C13: an operation of the command surface (SlewToAzimuth, AbortSlew,
\* FindHome, Park, SetPark, SetShutter) that is invoked while the connection
\* state is not Connected returns the not-connected error at once, makes no
\* send call and publishes nothing, and leaves the driver, the cached status
\* and the stored configuration as they were.
CommandOps == {"Cmd", "SetPark", "SetShutter"}
C13_NotConnectedRefused ==
  [][\A p \in Procs :
       (/\ ppc[p] = "idle" /\ ppc'[p] # "idle" /\ pop'[p] \in CommandOps
        /\ state # connStateConnected)
         => /\ ppc'[p] = "ret"
            /\ pres'[p] = ErrNotConnected
            /\ wire' = wire /\ sd' = sd /\ timer' = timer
            /\ drvVars' = drvVars
            /\ status' = status
            /\ storePark' = storePark]_vars

\* C13 witness: SetPark, invoked after a Disconnect, has returned the error.
C13_Witness ==
  \E p \in Procs :
    /\ ppc[p] = "ret" /\ pop[p] = "SetPark" /\ pres[p] = ErrNotConnected
    /\ state = connStateDisconnected /\ wire = <<>>

\* C14: when the configuration has no shutter support, SetShutter(open) and
\* SetShutter(close) invoked in state Connected return the
\* shutter-not-supported error, publish no command and leave the shutter
\* phase of the cached status unchanged.
C14_NoShutterRefused ==
  [][\A p \in Procs :
       (/\ ppc[p] = "idle" /\ ppc'[p] # "idle" /\ pop'[p] = "SetShutter"
        /\ state = connStateConnected /\ dDome # 0 /\ ~useShutter[dDome])
         => /\ ppc'[p] = "ret"
            /\ pres'[p] = Failure("shutter not supported")
            /\ wire' = wire /\ sd' = sd
            /\ status'[dDome].shutter = status[dDome].shutter]_vars

\* C14 witness: the refusal has been returned on a connected session.
C14_Witness ==
  \E p \in Procs :
    /\ ppc[p] = "ret" /\ pop[p] = "SetShutter"
    /\ pres[p] = Failure("shutter not supported")
    /\ state = connStateConnected /\ ~useShutter[dDome]
    /\ status[dDome].shutter = ShutterStatusClosed

\* C15: SetPark persists the new park position only when the set-park
\* command succeeds: when the command of a SetPark call (the only operation
\* of the run, so that nothing else writes the store) is rejected,
\* mismatched or times out, the call returns that error and the stored
\* ParkPosition is what it was when the call began.
C15_SetParkPersistsOnSuccess ==
  \A p \in Procs :
    (/\ ops = 1 /\ ppc[p] = "ret" /\ pop[p] = "SetPark"
     /\ pres[p][1] \in {"rejected", "mismatch", "timeout"})
      => storePark = pold[p]

\* C16: at the moment Disconnect returns successfully, the telemetry, battery
\* and response subscriptions of the session are gone and the Run goroutine
\* of its controller has returned.
C16_DisconnectTearsDown ==
  \A p \in Procs :
    (ppc[p] = "ret" /\ pop[p] = "Disconnect" /\ pres[p] = Ok)
      => (subs[dClient] = {} /\ rpc[dDome] = "done")

\* C17: on Disconnect from Connected with shutter support, the session is
\* closed only after Run has published the shutter-disconnect command on the
\* open session and unsubscribed the feeds, that is, after Run has finished
\* its deferred calls; and the Disconnect call returns success with the
\* state Disconnected whatever became of the shutter-disconnect command.
C17_DisconnectOrder ==
  [][/\ \A d \in Domes :
          (clientUp[d] /\ ~clientUp'[d] /\ useShutter[d])
            => (rpc[d] = "done" /\ subs[d] = {})
     /\ \A p \in Procs :
          (ppc[p] = "discClose" /\ ppc'[p] = "ret")
            => (pres'[p] = Ok /\ state' = connStateDisconnected)]_vars

\* C18: a telemetry or battery message that fails to decode is dropped with
\* the cached status unchanged: while the handler holds such a message the
\* status does not change, and the step in which the handler lets go of it
\* changes neither the connection state, nor the hand-off slot, nor the
\* blocked response handler, nor any send call or REST operation.
C18_UndecodableDropped ==
  [][\A d \in Domes :
       (inbox[d] # NoMsg /\ ~inbox[d].ok)
         => /\ status'[d] = status[d]
            /\ inbox'[d] # inbox[d] =>
                 /\ inbox'[d] = NoMsg
                 /\ state' = state
                 /\ chan' = chan /\ hblock' = hblock
                 /\ sd' = sd /\ timer' = timer
                 /\ ppc' = ppc /\ pres' = pres]_vars

\* C18 witness: every message delivered so far was undecodable and has been
\* dropped, the status is still the initial one, and a send call is waiting.
C18_Witness ==
  \E d \in Domes :
    /\ msgs = MaxMsgs /\ inbox[d] = NoMsg
    /\ status[d] = NoStatus
    /\ \E c \in Callers : sd[c] = d /\ timer[c] = "running"

\* C19: every status returned by a status read is consistent: its
\* telemetry-derived fields (position, direction, target, at-home, slewing)
\* all come from one and the same telemetry message.
C19_SnapshotConsistent ==
  \A p \in Procs :
    (ppc[p] = "ret" /\ pop[p] = "Status")
      => \A i, j \in DOMAIN snap[p].from : snap[p].from[i] = snap[p].from[j]

\* C20: the azimuth of every status returned lies in [0, 360).
C20_AzimuthNormalized ==
  \A p \in Procs :
    (ppc[p] = "ret" /\ pop[p] = "Status")
      => (0 <= snap[p].az /\ snap[p].az < 360)

\* C21: for every input angle, normalizeAngle returns a value in [0, 360)
\* that differs from the input by a whole number of turns.
C21_NormalizeInRange ==
  (fx.f = "normalizeAngle" /\ fy # NoRes)
    => /\ fy.kind = "value"
       /\ 0 <= fy.v /\ fy.v < 360
       /\ (fy.v - fx.x) % 360 = 0

\* C22: for every azimuth x in [0, 360) and every home offset,
\* TicksToDegrees(DegreesToTicks(x)) differs from x by less than the angle
\* of one tick, 360 / TicksPerTurn degrees.
C22_RoundTripWithinOneTick ==
  (fx.f = "RoundTrip" /\ fy # NoRes)
    => /\ fy.kind = "value"
       /\ (fy.v - fx.x) * TicksPerTurn < 360
       /\ (fx.x - fy.v) * TicksPerTurn < 360

\* C23: every well-formed response decodes: _ACK_<C>; gives code C, no
\* error, no value; _ACK_<C>=<v>; gives code C, no error, value v;
\* _NACK_<C>; gives code C with the error flag; the code is the first
\* character after the second underscore.
Letters == {"S", "1"}
Values  == SeqsUpTo(Letters, MaxTail - 3)
C23_WellFormedDecodes ==
  (fx.f = "parseResponse" /\ fy # NoRes) =>
    \A c \in Letters, rest \in SeqsUpTo(Letters, 1) :
      /\ fx.m = Framed("ACK", <<c>> \o rest \o <<";">>)
           => fy = Response(c, FALSE, FALSE, <<>>)
      /\ fx.m = Framed("NACK", <<c>> \o rest \o <<";">>)
           => fy = Response(c, TRUE, FALSE, <<>>)
      /\ \A v \in Values :
           fx.m = Framed("ACK", <<c>> \o rest \o <<"=">> \o v \o <<";">>)
             => fy = Response(c, FALSE, TRUE, v)

C23_Witness ==
  /\ fx.m = Framed("ACK", <<"S", "=", "1", ";">>)
  /\ fy = Response("S", FALSE, TRUE, <<"1">>)

\* C24: decoding ends in a decode error for every message that does not
\* split on "_" into exactly three segments, whose third segment does not
\* end with ";", whose second segment is neither ACK nor NACK, or whose
\* third segment holds more than one "=".
Count(s, c) == Cardinality({i \in 1..Len(s) : s[i] = c})
Malformed(m) ==
  \/ Count(m, "_") # 2
  \/ ~HasSuffix(m, ";")
  \/ Split(m, "_")[2] \notin {<<"ACK">>, <<"NACK">>}
  \/ Count(Split(m, "_")[3], "=") > 1
C24_MalformedRejected ==
  (fx.f = "parseResponse" /\ fy # NoRes /\ Malformed(fx.m))
    => fy = DecodeError

\* C25: every successful response carries a ServerTransactionID strictly
\* greater than that of every response emitted before it.
Successful(e) == e.envelope /\ e.errnum = 0
C25_IdsIncreaseInEmissionOrder ==
  \A j \in 1..Len(emitted) : Successful(emitted[j]) =>
    \A i \in 1..(j - 1) :
      emitted[i].envelope => emitted[i].stid < emitted[j].stid

\* C26: every response emitted for a device API request, whatever its
\* outcome, carries a server transaction id assigned to it alone.
C26_EveryResponseHasId ==
  \A j \in 1..Len(emitted) :
    /\ emitted[j].envelope
    /\ \A i \in 1..Len(emitted) :
         i # j => emitted[i].stid # emitted[j].stid

\* C27: a request whose ClientTransactionID is absent, negative or not a
\* number is answered with a client error and the driver method behind the
\* route is not called for it.
C27_BadClientIdRefused ==
  \A j \in 1..Len(emitted) :
    emitted[j].ctid # "ok" =>
      emitted[j].code = 400 /\ ~emitted[j].called

C27_Witness ==
  \E j \in 1..Len(emitted) :
    /\ emitted[j].route = "park"
    /\ emitted[j].ctid = "negative"
    /\ emitted[j].code = 400

\* C28: driver errors of different kinds are reported with different error
\* numbers, and errors of one kind with one number.
C28_ErrorNumbersDistinct ==
  \A i, j \in 1..Len(emitted) :
    (emitted[i].err \in DriverErrs /\ emitted[j].err \in DriverErrs) =>
      (emitted[i].errnum = emitted[j].errnum
         <=> emitted[i].err = emitted[j].err)

\* C29: on a route with a required parameter, a request whose parameter is
\* missing or does not parse is answered with status 400, and the driver
\* method is not called, with no value put in the parameter's place.
C29_BadParamRefused ==
  \A j \in 1..Len(emitted) :
    (Required(emitted[j].route) /\ emitted[j].param # "ok") =>
      emitted[j].code = 400 /\ ~emitted[j].called

C29_Witness ==
  \E j \in 1..Len(emitted) :
    /\ emitted[j].route = "slewtoazimuth"
    /\ emitted[j].ctid = "ok"
    /\ emitted[j].param = "absent"
    /\ emitted[j].code = 400
    /\ ~emitted[j].called

\* C30: the cached status of a dome changes only in a step in which a handler
\* ingests a telemetry or battery message or in which a command completes
\* with success; a step that issues a command, or in which a command is
\* refused, rejected or timed out, leaves it as it was.
Ingests(d) == inbox[d] # NoMsg
Completes ==
  \E p \in Procs :
    ppc[p] = "cmdWait" /\ ppc'[p] = "ret" /\ pres'[p] = Ok
C30_StatusFrame ==
  [][\A d \in Domes :
       status'[d] # status[d] => (Ingests(d) \/ Completes)]_vars

\* C31: the code of a response is compared with the code of the command
\* before the error flag is looked at: a send call of a REST operation that
\* returns "rejected" received a NACK carrying the code it sent (a NACK with
\* another code makes it return "mismatch").
C31_CodeCheckedFirst ==
  [][\A p \in Procs :
       (ppc[p] = "cmdWait" /\ ppc'[p] = "ret" /\ pres'[p][1] = "rejected")
         => pres'[p][2] = cmd[RestCaller(p)]]_vars

\* C32: whatever the interleaving of concurrent Connect and Disconnect calls
\* on the driver, at most one session is open and at most one Run goroutine
\* with its subscriptions is active at any time.
OpenSessions == {d \in Domes : clientUp[d]}
ActiveRuns   == {d \in Domes : rpc[d] \notin {"-", "done"}}
C32_OneSessionOneRun ==
  /\ Cardinality(OpenSessions) <= 1
  /\ Cardinality(ActiveRuns) <= 1

\* C33: once Disconnect has cancelled the context of a Run, whatever the
\* position Run is at, Run eventually returns and none of the telemetry,
\* battery and response feeds of its session is subscribed any more.
C33_CancelEndsRun ==
  \A d \in Domes : ctxDone[d] ~> (rpc[d] = "done" /\ subs[d] = {})

\* C34: DegreesToTicks rounds to the nearest tick: its result is
\* round(normalize(degrees - home) * TicksPerTurn / 360), a fraction of one
\* half or more being rounded up.
RoundOver360(n) == (2 * n + 360) \div 720
C34_RoundsToNearest ==
  (fx.f = "DegreesToTicks" /\ fy # NoRes /\ fx.x # Far) =>
    /\ fy.kind = "value"
    /\ fy.v = RoundOver360(((fx.x - homePos[dDome]) % 360) * TicksPerTurn)

\* C39: every goto command that SlewToAzimuth publishes carries a target t
\* with 0 <= t < TicksPerTurn, whatever the azimuth asked for and whatever
\* the home offset.
C39_GotoTargetInRange ==
  (fx.f = "SlewToAzimuth" /\ fy # NoRes /\ fy.kind = "goto") =>
    (0 <= fy.v /\ fy.v < TicksPerTurn)

\* C35: the server transaction counter never wraps nor repeats: it grows
\* with every id it issues and every id issued is positive, also past the
\* largest value of a signed 32-bit integer.
C35_CounterNeverWraps ==
  /\ [][txCounter' >= txCounter]_vars
  /\ [](\A j \in 1..Len(emitted) :
          emitted[j].envelope => emitted[j].stid > 0)

\* C36: the response handler does not fault on a version response that
\* carries no value: the process keeps running after such a response and the
\* response is handed to the waiting send call.
C36_VersionWithoutValueHandled ==
  ~(crashed # None /\ crashed.code = cmdVersion)

\* C37: parseResponse never faults: for every message it returns a response
\* or an error, and a correctly framed message whose code segment is empty
\* gets a decode error.
EmptyCode(m) ==
  /\ Count(m, "_") = 2
  /\ HasSuffix(m, ";")
  /\ Split(m, "_")[2] \in {<<"ACK">>, <<"NACK">>}
  /\ Len(Split(Trim(Split(m, "_")[3], ";"), "=")[1]) = 0
C37_ParseNeverFaults ==
  (fx.f = "parseResponse" /\ fy # NoRes) =>
    /\ fy.kind \in {"ok", "error"}
    /\ EmptyCode(fx.m) => fy = DecodeError

\* C40: the shutter phase that Status reports follows the telemetry: when the
\* handler has ingested a telemetry message that reports the shutter state s,
\* Status().Shutter is the value s is mapped to.
Ingested(d) ==
  /\ inbox[d] # NoMsg /\ inbox[d].kind = "telemetry" /\ Decodes(inbox[d])
  /\ inbox'[d] = NoMsg
C40_ShutterFollowsTelemetry ==
  [][\A d \in Domes :
       Ingested(d)
         => convertShutterStatus(status'[d].shutter)
              = convertShutterStatus(inbox[d].sh)]_vars

\* C38: a lifecycle call made in the wrong state is refused without effect:
\* a Connect call that finds the state other than Disconnected, and a
\* Disconnect call that finds it other than Connected, return an error at
\* once and leave the connection state, the session handle, the controller
\* and the cancel function as they were.
Starts(p, op) == ppc[p] = "idle" /\ ppc'[p] # "idle" /\ pop'[p] = op
Refused(p) ==
  /\ ppc'[p] = "ret"
  /\ pres'[p] \notin {Ok, Pending}
  /\ UNCHANGED <<state, dClient, dDome, dCancel, clientUp, ctxDone>>
C38_WrongStateRefused ==
  [][\A p \in Procs :
       /\ (Starts(p, "Connect") /\ state # connStateDisconnected)
            => Refused(p)
       /\ (Starts(p, "Disconnect") /\ state # connStateConnected)
            => (Refused(p) /\ pres'[p] = ErrNotConnected)]_vars

\* The third lifecycle call of a run, a Connect call on the Connected
\* driver, has returned "already connected"; the session that the earlier
\* Connect opened is still open and still the driver's.
C38_Witness ==
  \E p \in Procs :
    /\ ppc[p] = "ret" /\ pop[p] = "Connect"
    /\ pres[p] = Failure("already")
    /\ state = connStateConnected /\ dDome = 1 /\ clientUp[1]
    /\ ops = 3

====
